---- MODULE Spec2Model ----
(***************************************************************************)
(* Model of xmrig::Pool (src/base/net/stratum/Pool.cpp): the three         *)
(* constructors, isEnabled, isEqual, createClient, toJSON, printableName   *)
(* and the keep-alive mutator.  The collaborators Pool.cpp calls but that  *)
(* live in other files (String, Url, Json, the inline members of Pool.h)   *)
(* are modelled from the specification.                                    *)
(***************************************************************************)
EXTENDS Integers, Sequences, FiniteSets, TLC

VARIABLES
    FEATURE_TLS,    \* build defines XMRIG_FEATURE_TLS
    FEATURE_HTTP,   \* build defines XMRIG_FEATURE_HTTP
    constructed,    \* a constructor has run
    pool,           \* the Pool object (its ten data members)
    out             \* the last operation and what it returned

vars == <<FEATURE_TLS, FEATURE_HTTP, constructed, pool, out>>

(***************************************************************************)
(* Bounds and program constants                                            *)
(***************************************************************************)
\* integers offered as keep-alive values are -MaxInt..MaxInt and the sentinel
MaxInt == 1

kKeepAliveTimeout == 60
kDefaultPollInterval == 1000

(***************************************************************************)
(* xmrig::String: a nullable character string.  Text is a sequence of      *)
(* tokens so that Url parsing can take it apart.                           *)
(***************************************************************************)
NullString == [isNull |-> TRUE, data |-> <<>>]
Str(d) == [isNull |-> FALSE, data |-> d]

(***************************************************************************)
(* rapidjson::Value, and the Json:: getters                                *)
(***************************************************************************)
JAbsent  == [t |-> "absent", b |-> FALSE, i |-> 0, s |-> <<>>]
JNull    == [t |-> "null",   b |-> FALSE, i |-> 0, s |-> <<>>]
JBool(v) == [t |-> "bool",   b |-> v,     i |-> 0, s |-> <<>>]
JInt(v)  == [t |-> "int",    b |-> FALSE, i |-> v, s |-> <<>>]
JStr(d)  == [t |-> "string", b |-> FALSE, i |-> 0, s |-> d]

kDaemon             == "daemon"
kDaemonPollInterval == "daemon-poll-interval"
kEnabled            == "enabled"
kFingerprint        == "tls-fingerprint"
kKeepalive          == "keepalive"
kPass               == "pass"
kRigId              == "rig-id"
kSelfSelect         == "self-select"
kTls                == "tls"
kUrl                == "url"
kUser               == "user"

Keys == {kDaemon, kDaemonPollInterval, kEnabled, kFingerprint, kKeepalive,
         kPass, kRigId, kSelfSelect, kTls, kUrl, kUser}

EmptyObject == [k \in Keys |-> JAbsent]

\* obj.AddMember(key, value)
AddMember(obj, key, value) == [obj EXCEPT ![key] = value]

getValue(object, key) == object[key]

getString(object, key) ==
    IF object[key].t = "string" THEN Str(object[key].s) ELSE NullString

getBool(object, key, defaultValue) ==
    IF object[key].t = "bool" THEN object[key].b ELSE defaultValue

\* IsUint64: a number that is not negative
getUint64(object, key, defaultValue) ==
    IF object[key].t = "int" /\ object[key].i >= 0 THEN object[key].i
    ELSE defaultValue

\* String::toJSON
StringToJSON(s) == IF s.isNull THEN JNull ELSE JStr(s.data)

(***************************************************************************)
(* xmrig::Url (the Endpoint): [scheme] host ":" port                       *)
(***************************************************************************)
SchemeTcp == "stratum+tcp://"
SchemeSsl == "stratum+ssl://"
Schemes   == {SchemeTcp, SchemeSsl}
Hosts     == {"a.example", "b.example"}
PortOf    == [p \in {"3333", "443"} |-> IF p = "3333" THEN 3333 ELSE 443]

InvalidUrl == [url |-> NullString, host |-> NullString, port |-> 0, tls |-> FALSE]

\* Url::Url(const char *url): parse, an unparseable text gives the invalid Url
UrlParse(s) ==
    IF s.isNull THEN InvalidUrl
    ELSE LET d         == s.data
             hasScheme == Len(d) > 0 /\ d[1] \in Schemes
             rest      == IF hasScheme THEN Tail(d) ELSE d
         IN  IF /\ Len(rest) = 3
                /\ rest[1] \in Hosts
                /\ rest[2] = ":"
                /\ rest[3] \in DOMAIN PortOf
             THEN [url  |-> s,
                   host |-> Str(<<rest[1]>>),
                   port |-> PortOf[rest[3]],
                   tls  |-> hasScheme /\ d[1] = SchemeSsl]
             ELSE InvalidUrl

PortText(n) == CHOOSE p \in DOMAIN PortOf : PortOf[p] = n

\* Url::Url(const char *host, uint16_t port, bool tls)
UrlBuild(host, port, tls) ==
    IF host.isNull \/ host.data = <<>> THEN InvalidUrl
    ELSE [url  |-> Str(host.data \o <<":", PortText(port)>>),
          host |-> host,
          port |-> port,
          tls  |-> tls]

UrlIsValid(u) == ~u.host.isNull /\ u.host.data # <<>> /\ u.port > 0
UrlIsTLS(u)   == u.tls

(***************************************************************************)
(* xmrig::Pool: data members and inline members                            *)
(***************************************************************************)
MODE_POOL        == "MODE_POOL"
MODE_DAEMON      == "MODE_DAEMON"
MODE_SELF_SELECT == "MODE_SELF_SELECT"
Modes == {MODE_POOL, MODE_DAEMON, MODE_SELF_SELECT}

FLAG_ENABLED == "FLAG_ENABLED"
FLAG_TLS     == "FLAG_TLS"

\* m_flags.set(flag, value)
FlagsSet(flags, flag, value) ==
    IF value THEN flags \cup {flag} ELSE flags \ {flag}

\* the default member initialisers
DefaultPool ==
    [m_keepAlive    |-> 0,
     m_flags        |-> {},
     m_mode         |-> MODE_POOL,
     m_fingerprint  |-> NullString,
     m_password     |-> NullString,
     m_rigId        |-> NullString,
     m_url          |-> InvalidUrl,
     m_user         |-> NullString,
     m_pollInterval |-> kDefaultPollInterval,
     m_daemon       |-> InvalidUrl]

isValid(p) == UrlIsValid(p.m_url)
isTLS(p)   == FLAG_TLS \in p.m_flags \/ UrlIsTLS(p.m_url)

\* setKeepAlive(int): the value passes through unchanged
setKeepAliveInt(p, keepAlive) == [p EXCEPT !.m_keepAlive = keepAlive]

\* setKeepAlive(bool): true is the default timeout, false is 0
setKeepAliveBool(p, enable) ==
    setKeepAliveInt(p, IF enable THEN kKeepAliveTimeout ELSE 0)

(***************************************************************************)
(* Constructors                                                            *)
(***************************************************************************)
\* Pool::Pool(const char *url)
PoolFromUrl(url) ==
    [DefaultPool EXCEPT !.m_flags        = {FLAG_ENABLED},
                        !.m_pollInterval = kDefaultPollInterval,
                        !.m_url          = UrlParse(url)]

\* mutant: a bool keepalive member is not read
DecodeKeepAlive_IntOnly(p, keepalive) ==
    IF keepalive.t = "int" THEN setKeepAliveInt(p, keepalive.i) ELSE p

\* the keepalive member of the object: an int, a bool, or left alone
DecodeKeepAlive(p, keepalive) ==
    IF keepalive.t = "int" THEN setKeepAliveInt(p, keepalive.i)
    ELSE IF keepalive.t = "bool" THEN setKeepAliveBool(p, keepalive.b)
    ELSE p

\* mutant: the daemon member is tested before the self-select endpoint
DecodeMode_DaemonFirst(p, object) ==
    IF getBool(object, kDaemon, FALSE) THEN [p EXCEPT !.m_mode = MODE_DAEMON]
    ELSE IF UrlIsValid(p.m_daemon) THEN [p EXCEPT !.m_mode = MODE_SELF_SELECT]
    ELSE p

\* m_mode after the self-select / daemon test
DecodeMode(p, object) ==
    IF UrlIsValid(p.m_daemon) THEN [p EXCEPT !.m_mode = MODE_SELF_SELECT]
    ELSE IF getBool(object, kDaemon, FALSE) THEN [p EXCEPT !.m_mode = MODE_DAEMON]
    ELSE p

\* the members read once the url is known to be valid
DecodeFields(p, object) ==
    LET q == [p EXCEPT
                !.m_user         = getString(object, kUser),
                !.m_password     = getString(object, kPass),
                !.m_rigId        = getString(object, kRigId),
                !.m_fingerprint  = getString(object, kFingerprint),
                !.m_pollInterval = getUint64(object, kDaemonPollInterval, kDefaultPollInterval),
                !.m_daemon       = UrlParse(getString(object, kSelfSelect))]
        f1 == FlagsSet(q.m_flags, FLAG_ENABLED, getBool(object, kEnabled, TRUE))
        f2 == FlagsSet(f1, FLAG_TLS, getBool(object, kTls, FALSE) \/ UrlIsTLS(q.m_url))
    IN  [q EXCEPT !.m_flags = f2]

\* mutant: no return on an invalid url
PoolFromJSON_NoReturn(object) ==
    LET p0 == [DefaultPool EXCEPT
                 !.m_flags        = {FLAG_ENABLED},
                 !.m_pollInterval = kDefaultPollInterval,
                 !.m_url          = UrlParse(getString(object, kUrl))]
    IN  DecodeKeepAlive(DecodeMode(DecodeFields(p0, object), object),
                        getValue(object, kKeepalive))

\* Pool::Pool(const rapidjson::Value &object)
PoolFromJSON(object) ==
    LET p0 == [DefaultPool EXCEPT
                 !.m_flags        = {FLAG_ENABLED},
                 !.m_pollInterval = kDefaultPollInterval,
                 !.m_url          = UrlParse(getString(object, kUrl))]
    IN  IF ~UrlIsValid(p0.m_url) THEN p0
        ELSE DecodeKeepAlive(DecodeMode(DecodeFields(p0, object), object),
                             getValue(object, kKeepalive))

\* Pool::Pool(host, port, user, password, keepAlive, tls)
PoolFromArgs(host, port, user, password, keepAlive, tls) ==
    LET p0 == [DefaultPool EXCEPT
                 !.m_keepAlive    = keepAlive,
                 !.m_flags        = {FLAG_ENABLED},
                 !.m_password     = password,
                 !.m_user         = user,
                 !.m_pollInterval = kDefaultPollInterval,
                 !.m_url          = UrlBuild(host, port, tls)]
    IN  [p0 EXCEPT !.m_flags = FlagsSet(p0.m_flags, FLAG_TLS, tls)]

(***************************************************************************)
(* Operations                                                              *)
(***************************************************************************)
\* mutant: the TLS gate is missing
isEnabled_NoTlsGate(p, featureTls, featureHttp) ==
    IF ~featureHttp /\ p.m_mode = MODE_DAEMON THEN FALSE
    ELSE IF ~featureHttp /\ p.m_mode = MODE_SELF_SELECT THEN FALSE
    ELSE FLAG_ENABLED \in p.m_flags /\ isValid(p)

\* Pool::isEnabled under a build with / without the two features
isEnabled(p, featureTls, featureHttp) ==
    IF ~featureTls /\ isTLS(p) THEN FALSE
    ELSE IF ~featureHttp /\ p.m_mode = MODE_DAEMON THEN FALSE
    ELSE IF ~featureHttp /\ p.m_mode = MODE_SELF_SELECT THEN FALSE
    ELSE FLAG_ENABLED \in p.m_flags /\ isValid(p)

\* mutant: m_rigId is not compared
isEqual_NoRigId(p, other) ==
    /\ p.m_flags        = other.m_flags
    /\ p.m_keepAlive    = other.m_keepAlive
    /\ p.m_mode         = other.m_mode
    /\ p.m_fingerprint  = other.m_fingerprint
    /\ p.m_password     = other.m_password
    /\ p.m_url          = other.m_url
    /\ p.m_user         = other.m_user
    /\ p.m_pollInterval = other.m_pollInterval
    /\ p.m_daemon       = other.m_daemon

\* Pool::isEqual
isEqual(p, other) ==
    /\ p.m_flags        = other.m_flags
    /\ p.m_keepAlive    = other.m_keepAlive
    /\ p.m_mode         = other.m_mode
    /\ p.m_fingerprint  = other.m_fingerprint
    /\ p.m_password     = other.m_password
    /\ p.m_rigId        = other.m_rigId
    /\ p.m_url          = other.m_url
    /\ p.m_user         = other.m_user
    /\ p.m_pollInterval = other.m_pollInterval
    /\ p.m_daemon       = other.m_daemon

NoClient == [kind |-> "nullptr", setPoolCalls |-> 0, m_pool |-> DefaultPool]

\* mutant: the SELF_SELECT branch is missing
NewClient_NoSelfSelect(p, featureHttp) ==
    IF p.m_mode = MODE_POOL THEN [NoClient EXCEPT !.kind = "Client"]
    ELSE IF featureHttp /\ p.m_mode = MODE_DAEMON
         THEN [NoClient EXCEPT !.kind = "DaemonClient"]
    ELSE NoClient

\* the branch of createClient that allocates the client
NewClient(p, featureHttp) ==
    IF p.m_mode = MODE_POOL THEN [NoClient EXCEPT !.kind = "Client"]
    ELSE IF featureHttp /\ p.m_mode = MODE_DAEMON
         THEN [NoClient EXCEPT !.kind = "DaemonClient"]
    ELSE IF featureHttp /\ p.m_mode = MODE_SELF_SELECT
         THEN [NoClient EXCEPT !.kind = "SelfSelectClient"]
    ELSE NoClient

\* Pool::createClient: the client returned and whether the assert held
createClient(p, featureHttp) ==
    LET client == NewClient(p, featureHttp)
    IN  [assertHeld |-> client # NoClient,
         client     |-> IF client # NoClient
                        THEN [client EXCEPT !.setPoolCalls = @ + 1, !.m_pool = p]
                        ELSE client]

\* mutant: every keepAlive that is not positive is written as false
KeepAliveToJSON_NotPositive(keepAlive) ==
    IF keepAlive <= 0 \/ keepAlive = kKeepAliveTimeout
    THEN JBool(keepAlive > 0)
    ELSE JInt(keepAlive)

\* the keepalive member toJSON writes
KeepAliveToJSON(keepAlive) ==
    IF keepAlive = 0 \/ keepAlive = kKeepAliveTimeout
    THEN JBool(keepAlive > 0)
    ELSE JInt(keepAlive)

\* mutant: self-select is skipped when there is no daemon endpoint
DaemonToJSON_SkipEmpty(obj, p) ==
    IF p.m_mode = MODE_DAEMON
    THEN AddMember(obj, kDaemonPollInterval, JInt(p.m_pollInterval))
    ELSE IF UrlIsValid(p.m_daemon)
         THEN AddMember(obj, kSelfSelect, StringToJSON(p.m_daemon.url))
    ELSE obj

\* the last member toJSON writes: daemon-poll-interval or self-select
DaemonToJSON(obj, p) ==
    IF p.m_mode = MODE_DAEMON
    THEN AddMember(obj, kDaemonPollInterval, JInt(p.m_pollInterval))
    ELSE AddMember(obj, kSelfSelect, StringToJSON(p.m_daemon.url))

\* Pool::toJSON
toJSON(p) ==
    LET o1 == AddMember(EmptyObject, kUrl, StringToJSON(p.m_url.url))
        o2 == AddMember(o1, kUser, StringToJSON(p.m_user))
        o3 == IF p.m_mode # MODE_DAEMON
              THEN AddMember(
                     AddMember(
                       AddMember(o2, kPass, StringToJSON(p.m_password)),
                       kRigId, StringToJSON(p.m_rigId)),
                     kKeepalive, KeepAliveToJSON(p.m_keepAlive))
              ELSE o2
        o4 == AddMember(o3, kEnabled, JBool(FLAG_ENABLED \in p.m_flags))
        o5 == AddMember(o4, kTls, JBool(isTLS(p)))
        o6 == AddMember(o5, kFingerprint, StringToJSON(p.m_fingerprint))
        o7 == AddMember(o6, kDaemon, JBool(p.m_mode = MODE_DAEMON))
    IN  DaemonToJSON(o7, p)

\* the SGR colour numbers printableName writes after CSI "1;"
GREEN == 32
CYAN  == 36
RED   == 31

\* the endpoint segment of printableName
UrlSegment(p, featureTls, featureHttp) ==
    [colour |-> IF isEnabled(p, featureTls, featureHttp)
                THEN (IF isTLS(p) THEN GREEN ELSE CYAN)
                ELSE RED,
     text   |-> p.m_url.url]

\* the " self-select " segment of printableName
DaemonSegment(p) ==
    [colour |-> IF UrlIsTLS(p.m_daemon) THEN GREEN ELSE CYAN,
     text   |-> p.m_daemon.url]

\* Pool::printableName: the coloured segments, in order
printableName(p, featureTls, featureHttp) ==
    IF p.m_mode = MODE_SELF_SELECT
    THEN <<UrlSegment(p, featureTls, featureHttp), DaemonSegment(p)>>
    ELSE <<UrlSegment(p, featureTls, featureHttp)>>

(***************************************************************************)
(* Inputs                                                                  *)
(***************************************************************************)
KeepAliveInts == (-MaxInt .. MaxInt) \cup {kKeepAliveTimeout}

PlainUrlText  == <<"a.example", ":", "3333">>
SslUrlText    == <<SchemeSsl, "a.example", ":", "443">>
BadUrlText    == <<":", "3333">>
DaemonText    == <<SchemeTcp, "b.example", ":", "3333">>
SslDaemonText == <<SchemeSsl, "b.example", ":", "443">>

UrlValues        == {JAbsent, JStr(BadUrlText), JStr(PlainUrlText), JStr(SslUrlText)}
SelfSelectValues == {JAbsent, JStr(BadUrlText), JStr(DaemonText), JStr(SslDaemonText)}
TextValues(d)    == {JAbsent, JStr(d)}
PollValues       == {JAbsent, JInt(kDefaultPollInterval \div 2)}
KeepaliveValues  == {JAbsent, JStr(<<"on">>), JBool(TRUE), JBool(FALSE)}
                      \cup {JInt(k) : k \in KeepAliveInts}

\* the four text members offered together: none, one of them, or all
TextMembers ==
    LET all  == TextValues(<<"wallet">>) \X TextValues(<<"secret">>)
                  \X TextValues(<<"rig">>) \X TextValues(<<"ab:cd">>)
        n(t) == Cardinality({i \in 1..4 : t[i] # JAbsent})
    IN  {t \in all : n(t) \in {0, 1, 4}}

\* the objects offered to the decoding constructor
Objects ==
    { (kUrl :> u) @@ (kUser :> t[1]) @@ (kPass :> t[2]) @@ (kRigId :> t[3])
        @@ (kFingerprint :> t[4]) @@ (kDaemonPollInterval :> po)
        @@ (kSelfSelect :> ss) @@ (kEnabled :> en) @@ (kTls :> tl)
        @@ (kDaemon :> da) @@ (kKeepalive :> ka) :
        <<u, t, po, ss, en, tl, da, ka>> \in
            UrlValues \X TextMembers \X PollValues \X SelfSelectValues
              \X {JAbsent, JBool(FALSE)} \X {JAbsent, JBool(TRUE)}
              \X {JAbsent, JBool(TRUE)} \X KeepaliveValues }

UrlArguments == {NullString, Str(BadUrlText), Str(PlainUrlText), Str(SslUrlText)}

(***************************************************************************)
(* State machine                                                           *)
(***************************************************************************)
NoResult == [assertHeld |-> TRUE, client |-> NoClient]

NoOut == [op     |-> "none",
          object |-> EmptyObject,
          arg    |-> JAbsent,
          result |-> FALSE,
          other  |-> DefaultPool,
          made   |-> NoResult,
          name   |-> <<>>]

Init ==
    /\ FEATURE_TLS \in BOOLEAN
    /\ FEATURE_HTTP \in BOOLEAN
    /\ constructed = FALSE
    /\ pool = DefaultPool
    /\ out = NoOut

\* Pool pool(object);
ConstructFromJSON ==
    /\ ~constructed
    /\ \E object \in Objects :
         /\ pool' = PoolFromJSON(object)
         /\ out' = [NoOut EXCEPT !.op = "Pool(object)", !.object = object]
    /\ constructed' = TRUE
    /\ UNCHANGED <<FEATURE_TLS, FEATURE_HTTP>>

\* Pool pool(url);
ConstructFromUrl ==
    /\ ~constructed
    /\ \E url \in UrlArguments :
         /\ pool' = PoolFromUrl(url)
         /\ out' = [NoOut EXCEPT !.op = "Pool(url)", !.arg = StringToJSON(url)]
    /\ constructed' = TRUE
    /\ UNCHANGED <<FEATURE_TLS, FEATURE_HTTP>>

\* Pool pool(host, port, user, password, keepAlive, tls);
ConstructFromArgs ==
    /\ ~constructed
    /\ \E host \in {"a.example"}, port \in {3333},
          user \in {NullString, Str(<<"wallet">>)},
          password \in {NullString, Str(<<"secret">>)},
          keepAlive \in KeepAliveInts, tls \in BOOLEAN :
         /\ pool' = PoolFromArgs(Str(<<host>>), port, user, password, keepAlive, tls)
         /\ out' = [NoOut EXCEPT !.op = "Pool(host,port)"]
    /\ constructed' = TRUE
    /\ UNCHANGED <<FEATURE_TLS, FEATURE_HTTP>>

\* pool.setKeepAlive(int)
SetKeepAliveInt ==
    /\ constructed
    /\ \E k \in KeepAliveInts :
         /\ pool' = setKeepAliveInt(pool, k)
         /\ out' = [NoOut EXCEPT !.op = "setKeepAlive", !.arg = JInt(k)]
    /\ UNCHANGED <<FEATURE_TLS, FEATURE_HTTP, constructed>>

\* pool.setKeepAlive(bool)
SetKeepAliveBool ==
    /\ constructed
    /\ \E b \in BOOLEAN :
         /\ pool' = setKeepAliveBool(pool, b)
         /\ out' = [NoOut EXCEPT !.op = "setKeepAlive", !.arg = JBool(b)]
    /\ UNCHANGED <<FEATURE_TLS, FEATURE_HTTP, constructed>>

\* pool.isEnabled()
IsEnabled ==
    /\ constructed
    /\ out' = [NoOut EXCEPT !.op = "isEnabled",
                            !.result = isEnabled(pool, FEATURE_TLS, FEATURE_HTTP)]
    /\ UNCHANGED <<FEATURE_TLS, FEATURE_HTTP, constructed, pool>>

\* pool.createClient(id, listener)
CreateClient ==
    /\ constructed
    /\ out' = [NoOut EXCEPT !.op = "createClient",
                            !.made = createClient(pool, FEATURE_HTTP)]
    /\ UNCHANGED <<FEATURE_TLS, FEATURE_HTTP, constructed, pool>>

\* pool.toJSON(doc)
ToJSON ==
    /\ constructed
    /\ out' = [NoOut EXCEPT !.op = "toJSON", !.object = toJSON(pool)]
    /\ UNCHANGED <<FEATURE_TLS, FEATURE_HTTP, constructed, pool>>

\* Pool(pool.toJSON(doc)): the written object is read back
Reload ==
    /\ constructed
    /\ out.op = "toJSON"
    /\ out' = [NoOut EXCEPT !.op = "reload", !.object = out.object,
                            !.other = PoolFromJSON(out.object)]
    /\ UNCHANGED <<FEATURE_TLS, FEATURE_HTTP, constructed, pool>>

\* pool.printableName()
PrintableName ==
    /\ constructed
    /\ out' = [NoOut EXCEPT !.op = "printableName",
                            !.name = printableName(pool, FEATURE_TLS, FEATURE_HTTP)]
    /\ UNCHANGED <<FEATURE_TLS, FEATURE_HTTP, constructed, pool>>

\* every Pool a constructor followed by setKeepAlive calls can produce
Pools ==
    LET made == {PoolFromJSON(object) : object \in Objects}
                  \cup {PoolFromUrl(url) : url \in UrlArguments}
                  \cup {PoolFromArgs(Str(<<a[1]>>), a[2], a[3], a[4], a[5], a[6]) :
                          a \in {"a.example"} \X {3333}
                                \X {NullString, Str(<<"wallet">>)}
                                \X {NullString, Str(<<"secret">>)}
                                \X KeepAliveInts \X BOOLEAN}
    IN  {setKeepAliveInt(p, k) : p \in made, k \in KeepAliveInts}

\* the Pools that differ from p in at most one data member
Neighbours(p) ==
    LET urls == {UrlParse(u) : u \in UrlArguments}
                  \cup {UrlParse(Str(DaemonText)), UrlParse(Str(SslDaemonText))}
        near ==
            {[p EXCEPT !.m_flags = f] : f \in SUBSET {FLAG_ENABLED, FLAG_TLS}}
              \cup {[p EXCEPT !.m_keepAlive = k] : k \in KeepAliveInts}
              \cup {[p EXCEPT !.m_mode = m] : m \in Modes}
              \cup {[p EXCEPT !.m_fingerprint = t] : t \in {NullString, Str(<<"ab:cd">>)}}
              \cup {[p EXCEPT !.m_password = t] : t \in {NullString, Str(<<"secret">>)}}
              \cup {[p EXCEPT !.m_rigId = t] : t \in {NullString, Str(<<"rig">>)}}
              \cup {[p EXCEPT !.m_user = t] : t \in {NullString, Str(<<"wallet">>)}}
              \cup {[p EXCEPT !.m_url = u] : u \in urls}
              \cup {[p EXCEPT !.m_pollInterval = n] :
                      n \in {kDefaultPollInterval, kDefaultPollInterval \div 2}}
              \cup {[p EXCEPT !.m_daemon = u] : u \in urls}
    IN  {q \in near : q \in Pools}

\* pool.isEqual(other), other a Pool near this one or a freshly made one
IsEqual ==
    /\ constructed
    /\ \E other \in Neighbours(pool) \cup {PoolFromUrl(url) : url \in UrlArguments} :
         out' = [NoOut EXCEPT !.op = "isEqual", !.other = other,
                              !.result = isEqual(pool, other)]
    /\ UNCHANGED <<FEATURE_TLS, FEATURE_HTTP, constructed, pool>>

Next ==
    \/ ConstructFromJSON
    \/ ConstructFromUrl
    \/ ConstructFromArgs
    \/ SetKeepAliveInt
    \/ SetKeepAliveBool
    \/ IsEnabled
    \/ IsEqual
    \/ CreateClient
    \/ ToJSON
    \/ Reload
    \/ PrintableName

Spec == Init /\ [][Next]_vars

(***************************************************************************)
(* Properties                                                              *)
(***************************************************************************)
ValidUrlValues    == {JStr(PlainUrlText), JStr(SslUrlText)}
ValidDaemonValues == {JStr(DaemonText), JStr(SslDaemonText)}

Decoded == out.op = "Pool(object)"
Has(object, key) == object[key] # JAbsent

\* C1: round trip. For every valid Pool, in each of the three modes, the Pool
\* decoded from its toJSON object is equal to it under isEqual.
C1_RoundTrip ==
    (out.op = "reload" /\ isValid(pool)) => isEqual(out.other, pool)

\* C2: mode derivation. Whatever the constructor, the mode is SELF_SELECT iff
\* the stored daemon endpoint is valid; after a decode with a valid url the
\* mode is DAEMON iff the self-select member is absent or invalid and the
\* daemon member is true, and POOL iff neither holds; a valid self-select with
\* daemon = true gives SELF_SELECT with the daemon endpoint stored.
C2_ModeDerivation ==
    constructed =>
      /\ pool.m_mode = MODE_SELF_SELECT <=> UrlIsValid(pool.m_daemon)
      /\ (Decoded /\ out.object[kUrl] \in ValidUrlValues) =>
           LET ss == out.object[kSelfSelect] \in ValidDaemonValues
               da == out.object[kDaemon] = JBool(TRUE)
           IN  /\ pool.m_mode = MODE_DAEMON <=> (~ss /\ da)
               /\ pool.m_mode = MODE_POOL <=> (~ss /\ ~da)
               /\ ss => /\ pool.m_mode = MODE_SELF_SELECT
                        /\ pool.m_daemon.url = Str(out.object[kSelfSelect].s)
                        /\ pool.m_daemon.host = Str(<<"b.example">>)

C2_Witness ==
    /\ Decoded
    /\ out.object[kUrl] \in ValidUrlValues
    /\ out.object[kSelfSelect] = JStr(DaemonText)
    /\ out.object[kDaemon] = JBool(TRUE)
    /\ pool.m_mode = MODE_SELF_SELECT
    /\ pool.m_daemon.port = 3333

ClientKind(mode) ==
    IF mode = MODE_POOL THEN "Client"
    ELSE IF mode = MODE_DAEMON THEN "DaemonClient"
    ELSE "SelfSelectClient"

\* C3: factory safety. In every build, createClient on a Pool for which
\* isEnabled() is true returns a client (the assert holds), of the variant of
\* the Pool's mode, on which setPool(*this) was called exactly once.
C3_FactorySafety ==
    (out.op = "createClient" /\ isEnabled(pool, FEATURE_TLS, FEATURE_HTTP)) =>
      /\ out.made.assertHeld
      /\ out.made.client.kind = ClientKind(pool.m_mode)
      /\ out.made.client.setPoolCalls = 1
      /\ out.made.client.m_pool = pool

C3_Witness ==
    /\ out.op = "createClient"
    /\ isEnabled(pool, FEATURE_TLS, FEATURE_HTTP)
    /\ pool.m_mode = MODE_SELF_SELECT
    /\ out.made.client.kind = "SelfSelectClient"
    /\ out.made.client.setPoolCalls = 1

\* C4: the isEnabled gate. isEnabled() is true iff the enabled flag is set and
\* the Pool is valid and (it is not TLS or the build has TLS) and (its mode is
\* not DAEMON or the build has the daemon transport) and (its mode is not
\* SELF_SELECT or the build has the self-select transport). Both transports
\* are the one build feature XMRIG_FEATURE_HTTP.
C4_IsEnabledGate ==
    out.op = "isEnabled" =>
      (out.result <=>
         /\ FLAG_ENABLED \in pool.m_flags
         /\ pool.m_url.host # NullString
         /\ ((FLAG_TLS \notin pool.m_flags /\ ~pool.m_url.tls) \/ FEATURE_TLS)
         /\ (pool.m_mode # MODE_DAEMON \/ FEATURE_HTTP)
         /\ (pool.m_mode # MODE_SELF_SELECT \/ FEATURE_HTTP))

C4_Witness ==
    /\ out.op = "isEnabled"
    /\ ~out.result
    /\ FLAG_ENABLED \in pool.m_flags
    /\ isValid(pool)
    /\ ~isTLS(pool)
    /\ pool.m_mode = MODE_SELF_SELECT
    /\ ~FEATURE_HTTP

\* C5: invalid-url short circuit. A decoded Pool is valid iff the url member
\* parses to a valid endpoint; when it does not, nothing else is read from the
\* object: mode POOL, only the enabled flag set, keepAlive 0, the default poll
\* interval, no daemon endpoint, all strings null.
C5_InvalidUrlShortCircuit ==
    Decoded =>
      /\ isValid(pool) <=> out.object[kUrl] \in ValidUrlValues
      /\ out.object[kUrl] \notin ValidUrlValues =>
           /\ pool.m_mode = MODE_POOL
           /\ pool.m_flags = {FLAG_ENABLED}
           /\ ~isTLS(pool)
           /\ pool.m_keepAlive = 0
           /\ pool.m_pollInterval = kDefaultPollInterval
           /\ pool.m_daemon = InvalidUrl
           /\ pool.m_user = NullString
           /\ pool.m_password = NullString
           /\ pool.m_rigId = NullString
           /\ pool.m_fingerprint = NullString

C5_Witness ==
    /\ Decoded
    /\ out.object[kUrl] = JStr(BadUrlText)
    /\ \A k \in Keys : Has(out.object, k)
    /\ out.object[kSelfSelect] \in ValidDaemonValues
    /\ out.object[kKeepalive] = JInt(1)
    /\ ~isValid(pool)
    /\ pool.m_keepAlive = 0

\* C6: encode field sets. toJSON always writes url, user, enabled, tls,
\* tls-fingerprint and a boolean daemon equal to (mode == DAEMON); it writes
\* pass, rig-id and keepalive iff the mode is not DAEMON; it writes
\* daemon-poll-interval iff the mode is DAEMON and self-select iff it is not,
\* self-select also when the daemon endpoint is empty.
C6_EncodeFieldSets ==
    out.op = "toJSON" =>
      LET o == out.object
          d == pool.m_mode = MODE_DAEMON
      IN  /\ \A k \in {kUrl, kUser, kEnabled, kTls, kFingerprint} : Has(o, k)
          /\ o[kDaemon] = JBool(d)
          /\ \A k \in {kPass, kRigId, kKeepalive} : Has(o, k) <=> ~d
          /\ Has(o, kDaemonPollInterval) <=> d
          /\ Has(o, kSelfSelect) <=> ~d

C6_Witness ==
    /\ out.op = "toJSON"
    /\ pool.m_mode = MODE_POOL
    /\ pool.m_daemon = InvalidUrl
    /\ out.object[kSelfSelect] = JNull
    /\ ~Has(out.object, kDaemonPollInterval)

\* C7: keepalive encoding. When the mode is not DAEMON, toJSON writes keepalive
\* as false when keepAlive is 0, true when it is the default timeout, and the
\* integer itself otherwise (negative ones too); reading that value back as
\* the decoder does gives the same keepAlive.
C7_KeepaliveEncoding ==
    /\ (out.op = "toJSON" /\ pool.m_mode # MODE_DAEMON) =>
         LET k == pool.m_keepAlive
             v == out.object[kKeepalive]
         IN  /\ k = 0 => v = JBool(FALSE)
             /\ k = kKeepAliveTimeout => v = JBool(TRUE)
             /\ k \notin {0, kKeepAliveTimeout} => v = JInt(k)
             /\ DecodeKeepAlive(DefaultPool, v).m_keepAlive = k
    /\ (out.op = "reload" /\ pool.m_mode # MODE_DAEMON /\ isValid(pool)) =>
         out.other.m_keepAlive = pool.m_keepAlive

C7_Witness ==
    /\ out.op = "reload"
    /\ pool.m_mode # MODE_DAEMON
    /\ isValid(pool)
    /\ pool.m_keepAlive = -1
    /\ out.object[kKeepalive] = JInt(-1)
    /\ out.other.m_keepAlive = -1

\* the keep-alive a keepalive value stands for
KeepAliveOf(v) ==
    IF v.t = "bool" THEN (IF v.b THEN kKeepAliveTimeout ELSE 0)
    ELSE IF v.t = "int" THEN v.i
    ELSE 0

\* C8 as stated: setKeepAlive(true) gives the default timeout, setKeepAlive(false)
\* 0, setKeepAlive(n) n; every decode applies this mapping to the keepalive
\* member when it is an int or a bool and leaves keepAlive 0 otherwise.
C8_AsStated ==
    /\ out.op = "setKeepAlive" => pool.m_keepAlive = KeepAliveOf(out.arg)
    /\ Decoded => pool.m_keepAlive = KeepAliveOf(out.object[kKeepalive])

\* C8 amended: setKeepAlive(true) gives the default timeout, setKeepAlive(false)
\* 0, setKeepAlive(n) n; a decode whose url is valid applies this mapping to the
\* keepalive member when it is an int or a bool and leaves keepAlive 0
\* otherwise; a decode whose url is missing or unparseable leaves keepAlive 0.
C8_SetKeepAlive ==
    /\ out.op = "setKeepAlive" => pool.m_keepAlive = KeepAliveOf(out.arg)
    /\ Decoded =>
         pool.m_keepAlive =
           IF out.object[kUrl] \in ValidUrlValues
           THEN KeepAliveOf(out.object[kKeepalive])
           ELSE 0

C8_Witness ==
    /\ Decoded
    /\ out.object[kUrl] \in ValidUrlValues
    /\ out.object[kKeepalive] = JBool(TRUE)
    /\ pool.m_keepAlive = kKeepAliveTimeout

\* the three-way colour choice
Colour(enabled, tls) == IF enabled THEN (IF tls THEN GREEN ELSE CYAN) ELSE RED

\* C9: printableName colours. The endpoint segment is green when the Pool is
\* enabled and TLS, cyan when enabled and plaintext, red when not enabled; in
\* SELF_SELECT mode a second segment follows with the same three-way choice
\* made on the daemon endpoint's own TLS status; in the other modes there is
\* no second segment.
C9_PrintableName ==
    out.op = "printableName" =>
      LET enabled == isEnabled(pool, FEATURE_TLS, FEATURE_HTTP)
      IN  /\ out.name[1].colour = Colour(enabled, isTLS(pool))
          /\ pool.m_mode = MODE_SELF_SELECT =>
               /\ Len(out.name) = 2
               /\ out.name[2].colour = Colour(enabled, pool.m_daemon.tls)
          /\ pool.m_mode # MODE_SELF_SELECT => Len(out.name) = 1

\* the data members in which two Pools differ
Differing(p, q) == {f \in DOMAIN p : p[f] # q[f]}

\* C10: isEqual. a.isEqual(b) is true iff all ten data members match; Pools
\* that differ in exactly one member are unequal; isEqual is reflexive and
\* symmetric.
C10_IsEqual ==
    out.op = "isEqual" =>
      /\ Cardinality(DOMAIN pool) = 10
      /\ out.result <=> Differing(pool, out.other) = {}
      /\ Cardinality(Differing(pool, out.other)) = 1 => ~out.result
      /\ isEqual(pool, pool)
      /\ isEqual(out.other, pool) <=> out.result

C10_Witness ==
    /\ out.op = "isEqual"
    /\ Differing(pool, out.other) = {"m_rigId"}
    /\ ~out.result

====
